---- MODULE Spec2Model ----
(***************************************************************************)
(* MXLIMS data model (mxlims/pydantic/core.py, crystallography.py).        *)
(*                                                                         *)
(* The program is a library of pydantic record types.  Its state is the    *)
(* interpreter's: which of the two modules has been executed and what it   *)
(* bound, the records an application holds, and the outcome of the last    *)
(* call.  Every action is one call an application makes: importing a       *)
(* module, constructing a record, assigning a field, a JSON round trip.    *)
(*                                                                         *)
(* Values.  Python and JSON values are records tagged by k:                *)
(*   none, str (s), int (n), float (milli: the value in thousandths),      *)
(*   enum (enum, name), uuid (s), ref (at: a record the application        *)
(*   holds), list (items), dict (map), inst (cls, fields: a nested record).*)
(* A str whose s is "uuid4" and that carries gen is what uuid.uuid4().hex  *)
(* returned on the gen-th call.                                            *)
(***************************************************************************)
EXTENDS Integers, Sequences, FiniteSets, TLC

VARIABLES modules, heap, uuidCalls, last, files

vars == <<modules, heap, uuidCalls, last, files>>

(* Bounds of the model. *)
MaxRecords == 2
MaxMembers == 1

-----------------------------------------------------------------------------
(* Values *)

PyNone == [k |-> "none"]
PyStr(s) == [k |-> "str", s |-> s]
PyInt(n) == [k |-> "int", n |-> n]
PyFloat(m) == [k |-> "float", milli |-> m]
PyBool(b) == [k |-> "bool", b |-> b]
Ref(i) == [k |-> "ref", at |-> i]
PyList(items) == [k |-> "list", items |-> items]
PyDict(map) == [k |-> "dict", map |-> map]
Member(e, name) == [k |-> "enum", enum |-> e, name |-> name]
Uuid4(g) == [k |-> "str", s |-> "uuid4", gen |-> g]
EmptyMap == [x \in {} |-> PyNone]

Merge(f, g) == [x \in DOMAIN f \cup DOMAIN g |-> IF x \in DOMAIN g THEN g[x] ELSE f[x]]

Range(seq) == {seq[i] : i \in DOMAIN seq}

-----------------------------------------------------------------------------
(* Enumerations: member name -> value *)

JobStatus ==
    [Template |-> "Template", Ready |-> "Ready", Running |-> "Running",
     Completed |-> "Completed", Failed |-> "\tFailed", Aborted |-> "Aborted"]

PdbxSignalType ==
    [I_over_sigma |-> "local <I/sigmaI>", wCC_half |-> "local wCC_half"]

QualityFactorType ==
    [R_merge |-> "R(merge)", R_meas |-> "R(meas)", R_pim |-> "R(pim)",
     I_over_SigI |-> "I/SigI", CC_half |-> "CC(1/2)", CC_ano |-> "CC(ano)",
     SigAno |-> "SigAno", Completeness |-> "Completeness",
     Redundancy |-> "Redundancy"]

ReflectionBinningMode ==
    [equal_volume |-> "equal_volume", equal_number |-> "equal_number",
     dstar_equidistant |-> "dstar_equidistant",
     dstar2_equidistant |-> "dstar2_equidistant"]

EnumMembers(e) ==
    CASE e = "JobStatus" -> JobStatus
      [] e = "PdbxSignalType" -> PdbxSignalType
      [] e = "QualityFactorType" -> QualityFactorType
      [] e = "ReflectionBinningMode" -> ReflectionBinningMode

-----------------------------------------------------------------------------
(* Module execution *)

(* The classes core.py binds, in order. *)
CoreNames ==
    {"JobStatus", "MxlimsObject", "Dataset", "Job", "LogisticalSample",
     "PreparedSample"}

(* from mxlims.pydantic.core import (...) *)
ImportedNames ==
    {"Job", "Dataset", "PreparedSample", "LogisticalSample", "MxlimsObjectRef"}

(* One statement of crystallography.py: what it binds and the names its     *)
(* execution evaluates (base classes, annotations that are not strings).   *)
Stmt(kind, binds, needs) == [kind |-> kind, binds |-> binds, needs |-> needs]

CrystallographyStatements ==
    << Stmt("import", ImportedNames, ImportedNames),
       Stmt("class", {"PdbxSignalType"}, {}),
       Stmt("class", {"QualityFactorType"}, {}),
       Stmt("class", {"ReflectionBinningMode"}, {}),
       Stmt("class", {"UnitCell"}, {}),
       Stmt("class", {"Tensor"}, {}),
       Stmt("class", {"QualityFactor"}, {"QualityFactorType"}),
       Stmt("class", {"Macromolecule"}, {}),
       Stmt("class", {"Component"}, {}),
       Stmt("class", {"MXExperiment"}, {"Job", "UnitCell", "MxlimsReference"}),
       Stmt("class", {"MXExperimentRef"}, {}),
       Stmt("class", {"CollectionSweep"}, {"Dataset"}),
       Stmt("class", {"CollectionSweepRef"}, {}),
       Stmt("class", {"Scan"}, {}),
       Stmt("class", {"MXProcessing"}, {"Job", "UnitCell", "MxlimsReference"}),
       Stmt("class", {"MXProcessingRef"}, {}),
       Stmt("class", {"ReflectionStatistics"}, {"QualityFactor"}),
       Stmt("class", {"ReflectionSet"},
            {"Dataset", "UnitCell", "Tensor", "ReflectionStatistics",
             "PdbxSignalType", "QualityFactor", "ReflectionBinningMode"}),
       Stmt("class", {"ReflectionSetRef"}, {}),
       Stmt("class", {"MXSample"},
            {"PreparedSample", "Macromolecule", "Component", "UnitCell",
             "MXExperiment", "MXProcessing"}),
       Stmt("class", {"MXSampleRef"}, {}) >>

CrystallographyNames ==
    UNION {CrystallographyStatements[i].binds :
             i \in 2..Len(CrystallographyStatements)}

(* Executing statements i.. with `bound` the module's namespace so far: an *)
(* import of a name core does not bind raises ImportError, a class body    *)
(* that evaluates an unbound name raises NameError; either ends execution. *)
RECURSIVE Exec(_, _)
Exec(i, bound) ==
    IF i > Len(CrystallographyStatements)
    THEN [status |-> "loaded", error |-> "", at |-> 0, names |-> bound]
    ELSE LET st == CrystallographyStatements[i] IN
         IF st.kind = "import"
         THEN IF st.needs \subseteq CoreNames
              THEN Exec(i + 1, bound \cup st.binds)
              ELSE [status |-> "failed", error |-> "ImportError", at |-> i,
                    names |-> {}]
         ELSE IF st.needs \subseteq bound
              THEN Exec(i + 1, bound \cup st.binds)
              ELSE [status |-> "failed", error |-> "NameError", at |-> i,
                    names |-> {}]

ExecCrystallography == Exec(1, {})

ModuleOf(cls) == IF cls \in CoreNames THEN "core" ELSE "crystallography"

-----------------------------------------------------------------------------
(* Field declarations.  Fld(type, of, nullable, default, frozen, cons):    *)
(* the annotation (Optional[...] sets nullable), the Field() default or    *)
(* default_factory, frozen=, and the ge/le/gt bounds in thousandths.       *)

Required == [k |-> "required"]
Factory(f) == [k |-> "factory", of |-> f]
Fld(type, of, nullable, default, frozen, cons) ==
    [type |-> type, of |-> of, nullable |-> nullable, default |-> default,
     frozen |-> frozen, cons |-> cons]
Item(type, of) == Fld(type, of, FALSE, Required, FALSE, {})

(* class MxlimsObject(BaseModel), core.py:44 *)
MxlimsObject ==
    [uuid |->
        Fld("str", "", FALSE, Factory("uuid4"), TRUE, {}),
     extensions |->
        Fld("dict", Item("any", ""), FALSE, Factory("dict"), FALSE, {}),
     namespace_extensions |->
        Fld("dict", Item("model", "BaseModel"), FALSE, Factory("dict"), FALSE, {})]

(* class Dataset(MxlimsObject), core.py:67 *)
Dataset ==
    [source |->
        Fld("model", "Job", TRUE, PyNone, TRUE, {}),
     role |->
        Fld("str", "", TRUE, PyNone, TRUE, {}),
     logistical_sample |->
        Fld("model", "LogisticalSample", TRUE, PyNone, TRUE, {}),
     derived_from_id |->
        Fld("uuid", "", TRUE, PyNone, TRUE, {})]

(* class Job(MxlimsObject), core.py:110 *)
Job ==
    [sample |->
        Fld("model", "PreparedSample", TRUE, PyNone, TRUE, {}),
     logistical_sample |->
        Fld("model", "LogisticalSample", TRUE, PyNone, TRUE, {}),
     templates |->
        Fld("list", Item("model", "Dataset"), FALSE, Factory("list"), FALSE, {}),
     input_data |->
        Fld("list", Item("model", "Dataset"), FALSE, Factory("list"), FALSE, {}),
     reference_data |->
        Fld("list", Item("model", "Dataset"), FALSE, Factory("list"), FALSE, {}),
     results |->
        Fld("list", Item("model", "Dataset"), FALSE, Factory("list"), FALSE, {}),
     start_time |->
        Fld("datetime", "", TRUE, PyNone, FALSE, {}),
     end_time |->
        Fld("datetime", "", TRUE, PyNone, FALSE, {}),
     job_status |->
        Fld("enum", "JobStatus", TRUE, PyNone, FALSE, {})]

(* class LogisticalSample(MxlimsObject), core.py:182 *)
LogisticalSample ==
    [sample |->
        Fld("model", "PreparedSample", TRUE, PyNone, FALSE, {}),
     container |->
        Fld("model", "LogisticalSample", TRUE, PyNone, FALSE, {}),
     contents |->
        Fld("list", Item("model", "LogisticalSample"), FALSE, Factory("list"), FALSE, {}),
     jobs |->
        Fld("list", Item("model", "Job"), FALSE, Factory("list"), FALSE, {}),
     datasets |->
        Fld("list", Item("model", "Dataset"), FALSE, Factory("list"), FALSE, {})]

(* class PreparedSample(MxlimsObject), core.py:222 *)
PreparedSample ==
    [logistical_samples |->
        Fld("list", Item("model", "LogisticalSample"), FALSE, Factory("list"), FALSE, {}),
     jobs |->
        Fld("list", Item("model", "Job"), FALSE, Factory("list"), FALSE, {})]

(* class UnitCell(BaseModel), crystallography.py:73 *)
UnitCell ==
    [a |->
        Fld("float", "", FALSE, Required, TRUE, {}),
     b |->
        Fld("float", "", FALSE, Required, TRUE, {}),
     c |->
        Fld("float", "", FALSE, Required, TRUE, {}),
     alpha |->
        Fld("float", "", FALSE, Required, TRUE, {}),
     beta |->
        Fld("float", "", FALSE, Required, TRUE, {}),
     gamma |->
        Fld("float", "", FALSE, Required, TRUE, {})]

(* class Tensor(BaseModel), crystallography.py:102 *)
Tensor ==
    [eigenvalues |->
        Fld("tuple", [item |-> Item("float", ""), len |-> 3], FALSE, Required, FALSE, {}),
     eigenvectors |->
        Fld("list", Item("tuple", [item |-> Item("float", ""), len |-> 3]), FALSE, Required, FALSE, {})]

(* class QualityFactor(BaseModel), crystallography.py:114 *)
QualityFactor ==
    [type |->
        Fld("enum", "QualityFactorType", FALSE, Required, FALSE, {}),
     value |->
        Fld("float", "", FALSE, Required, FALSE, {})]

(* class Macromolecule(BaseModel), crystallography.py:124 *)
Macromolecule ==
    [acronym |->
        Fld("str", "", FALSE, Required, FALSE, {}),
     name |->
        Fld("str", "", TRUE, PyNone, FALSE, {}),
     identifiers |->
        Fld("dict", Item("str", ""), FALSE, Factory("dict"), FALSE, {})]

(* class Component(BaseModel), crystallography.py:142 *)
Component ==
    [acronym |->
        Fld("str", "", FALSE, Required, FALSE, {}),
     name |->
        Fld("str", "", TRUE, PyNone, FALSE, {}),
     identifiers |->
        Fld("dict", Item("str", ""), FALSE, Factory("dict"), FALSE, {})]

(* class MXExperiment(Job), crystallography.py:161 *)
MXExperiment ==
    [mxlims_type |->
        Fld("literal", "MXExperiment", FALSE, Required, FALSE, {}),
     experiment_strategy |->
        Fld("str", "", FALSE, PyNone, FALSE, {}),
     expected_resolution |->
        Fld("float", "", TRUE, PyNone, FALSE, {}),
     target_completeness |->
        Fld("float", "", TRUE, PyNone, FALSE, {}),
     target_multiplicity |->
        Fld("float", "", TRUE, PyNone, FALSE, {}),
     dose_budget |->
        Fld("float", "", TRUE, PyNone, FALSE, {}),
     snapshot_count |->
        Fld("int", "", TRUE, PyNone, FALSE, {}),
     wedge_width |->
        Fld("float", "", TRUE, PyNone, FALSE, {}),
     measured_flux |->
        Fld("float", "", TRUE, PyNone, FALSE, {}),
     radiation_dose |->
        Fld("float", "", TRUE, PyNone, FALSE, {}),
     unit_cell |->
        Fld("model", "UnitCell", TRUE, PyNone, FALSE, {}),
     space_group_name |->
        Fld("str", "", TRUE, PyNone, FALSE, {}),
     sample |->
        Fld("model", "MXSample", TRUE, PyNone, TRUE, {}),
     templates |->
        Fld("list", Item("union", [members |-> <<"CollectionSweep", "MxlimsReference">>, discriminator |-> "mxlims_type"]), FALSE, Factory("list"), FALSE, {}),
     reference_data |->
        Fld("list", Item("union", [members |-> <<"ReflectionSet", "MxlimsReference">>, discriminator |-> "mxlims_type"]), FALSE, Factory("list"), FALSE, {}),
     results |->
        Fld("list", Item("union", [members |-> <<"CollectionSweep", "MxlimsReference">>, discriminator |-> "mxlims_type"]), FALSE, Factory("list"), FALSE, {})]

(* class MXExperimentRef(BaseModel), crystallography.py:244 *)
MXExperimentRef ==
    [target_type |->
        Fld("literal", "MXExperiment", FALSE, Required, FALSE, {})]

(* class CollectionSweep(Dataset), crystallography.py:248 *)
CollectionSweep ==
    [mxlims_type |->
        Fld("literal", "CollectionSweep", FALSE, Required, FALSE, {}),
     annotation |->
        Fld("str", "", TRUE, PyNone, FALSE, {}),
     exposure_time |->
        Fld("float", "", TRUE, PyNone, FALSE, {}),
     image_width |->
        Fld("float", "", TRUE, PyNone, FALSE, {}),
     energy |->
        Fld("float", "", TRUE, PyNone, FALSE, {}),
     transmission |->
        Fld("float", "", TRUE, PyNone, FALSE, {[op |-> "ge", b |-> 0], [op |-> "le", b |-> 100000]}),
     detector_type |->
        Fld("str", "", TRUE, PyNone, FALSE, {}),
     detector_binning_mode |->
        Fld("str", "", TRUE, PyNone, FALSE, {}),
     detector_roi_mode |->
        Fld("str", "", TRUE, PyNone, FALSE, {}),
     beam_position |->
        Fld("tuple", [item |-> Item("float", ""), len |-> 2], TRUE, PyNone, FALSE, {}),
     beam_size |->
        Fld("tuple", [item |-> Item("float", ""), len |-> 2], TRUE, PyNone, FALSE, {}),
     beam_shape |->
        Fld("str", "", TRUE, PyNone, FALSE, {}),
     axis_positions_start |->
        Fld("dict", Item("float", ""), FALSE, Factory("dict"), FALSE, {}),
     axis_positions_end |->
        Fld("dict", Item("float", ""), FALSE, Factory("dict"), FALSE, {}),
     scan_axis |->
        Fld("str", "", FALSE, Required, FALSE, {}),
     overlap |->
        Fld("float", "", TRUE, PyNone, FALSE, {}),
     num_triggers |->
        Fld("int", "", TRUE, PyNone, FALSE, {}),
     num_images_per_trigger |->
        Fld("int", "", TRUE, PyNone, FALSE, {}),
     scans |->
        Fld("list", Item("model", "Scan"), FALSE, Factory("list"), FALSE, {}),
     file_type |->
        Fld("str", "", TRUE, PyNone, FALSE, {}),
     prefix |->
        Fld("str", "", TRUE, PyNone, FALSE, {}),
     filename_template |->
        Fld("str", "", TRUE, PyNone, FALSE, {}),
     path |->
        Fld("str", "", TRUE, PyNone, FALSE, {})]

(* class CollectionSweepRef(BaseModel), crystallography.py:391 *)
CollectionSweepRef ==
    [target_type |->
        Fld("literal", "CollectionSweep", FALSE, Required, FALSE, {})]

(* class Scan(BaseModel), crystallography.py:395 *)
Scan ==
    [scan_position_start |->
        Fld("float", "", FALSE, Required, FALSE, {}),
     first_image_no |->
        Fld("int", "", FALSE, Required, FALSE, {}),
     num_images |->
        Fld("int", "", FALSE, Required, FALSE, {}),
     ordinal |->
        Fld("int", "", FALSE, Required, FALSE, {})]

(* class MXProcessing(Job), crystallography.py:420 *)
MXProcessing ==
    [mxlims_type |->
        Fld("literal", "MXProcessing", FALSE, Required, FALSE, {}),
     unit_cell |->
        Fld("model", "UnitCell", TRUE, PyNone, FALSE, {}),
     space_group_name |->
        Fld("str", "", TRUE, PyNone, FALSE, {}),
     sample |->
        Fld("model", "MXSample", TRUE, PyNone, TRUE, {}),
     input_data |->
        Fld("list", Item("union", [members |-> <<"CollectionSweep", "MxlimsReference">>, discriminator |-> "mxlims_type"]), FALSE, Factory("list"), FALSE, {}),
     templates |->
        Fld("list", Item("union", [members |-> <<"ReflectionSet", "MxlimsReference">>, discriminator |-> "mxlims_type"]), FALSE, Factory("list"), FALSE, {}),
     reference_data |->
        Fld("list", Item("union", [members |-> <<"ReflectionSet", "MxlimsReference">>, discriminator |-> "mxlims_type"]), FALSE, Factory("list"), FALSE, {}),
     results |->
        Fld("list", Item("union", [members |-> <<"ReflectionSet", "MxlimsReference">>, discriminator |-> "mxlims_type"]), FALSE, Factory("list"), FALSE, {})]

(* class MXProcessingRef(BaseModel), crystallography.py:461 *)
MXProcessingRef ==
    [target_type |->
        Fld("literal", "MXProcessing", FALSE, Required, FALSE, {})]

(* class ReflectionStatistics(BaseModel), crystallography.py:465 *)
ReflectionStatistics ==
    [resolution_limits |->
        Fld("tuple", [item |-> Item("float", ""), len |-> 2], FALSE, Required, FALSE, {}),
     number_observations |->
        Fld("int", "", FALSE, Required, FALSE, {}),
     number_unique_observations |->
        Fld("int", "", FALSE, Required, FALSE, {}),
     quality_factors |->
        Fld("list", Item("model", "QualityFactor"), FALSE, Factory("list"), FALSE, {}),
     completeness |->
        Fld("float", "", FALSE, Required, FALSE, {[op |-> "ge", b |-> 0], [op |-> "le", b |-> 100000]}),
     chi_squared |->
        Fld("float", "", TRUE, PyNone, FALSE, {[op |-> "ge", b |-> 0]}),
     number_rejected_reflns |->
        Fld("int", "", TRUE, PyNone, FALSE, {}),
     redundancy |->
        Fld("float", "", FALSE, Required, FALSE, {[op |-> "ge", b |-> 0]}),
     redundancy_anomalous |->
        Fld("float", "", FALSE, Required, FALSE, {[op |-> "ge", b |-> 0]})]

(* class ReflectionSet(Dataset), crystallography.py:512 *)
ReflectionSet ==
    [mxlims_type |->
        Fld("literal", "ReflectionSet", FALSE, Required, FALSE, {}),
     anisotropic_diffraction |->
        Fld("bool", "", FALSE, PyBool(FALSE), FALSE, {}),
     resolution_rings_detected |->
        Fld("list", Item("tuple", [item |-> Item("float", ""), len |-> 2]), FALSE, Factory("list"), FALSE, {}),
     resolution_rings_excluded |->
        Fld("list", Item("tuple", [item |-> Item("float", ""), len |-> 2]), FALSE, Factory("list"), FALSE, {}),
     unit_cell |->
        Fld("model", "UnitCell", TRUE, PyNone, FALSE, {}),
     space_group_name |->
        Fld("str", "", TRUE, PyNone, FALSE, {}),
     operational_resolution |->
        Fld("float", "", TRUE, PyNone, FALSE, {}),
     B_iso_Wilson_estimate |->
        Fld("float", "", TRUE, PyNone, FALSE, {}),
     h_index_range |->
        Fld("tuple", [item |-> Item("int", ""), len |-> 2], FALSE, Required, FALSE, {}),
     k_index_range |->
        Fld("tuple", [item |-> Item("int", ""), len |-> 2], FALSE, Required, FALSE, {}),
     l_index_range |->
        Fld("tuple", [item |-> Item("int", ""), len |-> 2], FALSE, Required, FALSE, {}),
     num_reflections |->
        Fld("int", "", FALSE, Required, FALSE, {}),
     num_unique_reflections |->
        Fld("int", "", FALSE, Required, FALSE, {}),
     aniso_B_tensor |->
        Fld("model", "Tensor", TRUE, PyNone, FALSE, {}),
     diffraction_limits_estimated |->
        Fld("model", "Tensor", TRUE, PyNone, FALSE, {}),
     overall_refln_statistics |->
        Fld("model", "ReflectionStatistics", TRUE, PyNone, FALSE, {}),
     refln_shells |->
        Fld("list", Item("model", "ReflectionStatistics"), FALSE, Factory("list"), FALSE, {}),
     observed_criterion_sigma_F |->
        Fld("float", "", TRUE, PyNone, FALSE, {}),
     observed_criterion_sigma_I |->
        Fld("float", "", TRUE, PyNone, FALSE, {}),
     signal_type |->
        Fld("enum", "PdbxSignalType", TRUE, PyNone, FALSE, {}),
     signal_cutoff |->
        Fld("float", "", TRUE, PyNone, FALSE, {}),
     resolution_cutoffs |->
        Fld("list", Item("model", "QualityFactor"), FALSE, Factory("list"), FALSE, {}),
     binning_mode |->
        Fld("enum", "ReflectionBinningMode", TRUE, PyNone, FALSE, {}),
     number_bins |->
        Fld("int", "", TRUE, PyNone, FALSE, {[op |-> "gt", b |-> 0]}),
     refln_per_bin |->
        Fld("int", "", TRUE, PyNone, FALSE, {[op |-> "gt", b |-> 0]}),
     refln_per_bin_per_sweep |->
        Fld("int", "", TRUE, PyNone, FALSE, {[op |-> "gt", b |-> 0]}),
     file_type |->
        Fld("str", "", TRUE, PyNone, FALSE, {}),
     filename |->
        Fld("str", "", TRUE, PyNone, FALSE, {}),
     path |->
        Fld("str", "", TRUE, PyNone, FALSE, {})]

(* class ReflectionSetRef(BaseModel), crystallography.py:638 *)
ReflectionSetRef ==
    [target_type |->
        Fld("literal", "ReflectionSet", FALSE, Required, FALSE, {})]

(* class MXSample(PreparedSample), crystallography.py:642 *)
MXSample ==
    [mxlims_type |->
        Fld("literal", "MXSample", FALSE, Required, FALSE, {}),
     macromolecule |->
        Fld("model", "Macromolecule", FALSE, PyNone, FALSE, {}),
     components |->
        Fld("list", Item("model", "Component"), FALSE, Factory("list"), FALSE, {}),
     unit_cell |->
        Fld("model", "UnitCell", TRUE, PyNone, FALSE, {}),
     space_group_name |->
        Fld("str", "", TRUE, PyNone, FALSE, {}),
     radiation_sensitivity |->
        Fld("float", "", TRUE, PyNone, FALSE, {[op |-> "ge", b |-> 0], [op |-> "le", b |-> 1000]}),
     identifiers |->
        Fld("dict", Item("str", ""), FALSE, Factory("dict"), FALSE, {}),
     jobs |->
        Fld("list", Item("union", [members |-> <<"MXExperiment", "MXProcessing">>, discriminator |-> ""]), FALSE, Factory("list"), FALSE, {})]

(* class MXSampleRef(BaseModel), crystallography.py:690 *)
MXSampleRef ==
    [target_type |->
        Fld("literal", "MXSample", FALSE, Required, FALSE, {})]

(* The class statement's own fields and its base class. *)
ClassTable(cls) ==
    CASE cls = "MxlimsObject" -> MxlimsObject
      [] cls = "Dataset" -> Dataset
      [] cls = "Job" -> Job
      [] cls = "LogisticalSample" -> LogisticalSample
      [] cls = "PreparedSample" -> PreparedSample
      [] cls = "UnitCell" -> UnitCell
      [] cls = "Tensor" -> Tensor
      [] cls = "QualityFactor" -> QualityFactor
      [] cls = "Macromolecule" -> Macromolecule
      [] cls = "Component" -> Component
      [] cls = "MXExperiment" -> MXExperiment
      [] cls = "MXExperimentRef" -> MXExperimentRef
      [] cls = "CollectionSweep" -> CollectionSweep
      [] cls = "CollectionSweepRef" -> CollectionSweepRef
      [] cls = "Scan" -> Scan
      [] cls = "MXProcessing" -> MXProcessing
      [] cls = "MXProcessingRef" -> MXProcessingRef
      [] cls = "ReflectionStatistics" -> ReflectionStatistics
      [] cls = "ReflectionSet" -> ReflectionSet
      [] cls = "ReflectionSetRef" -> ReflectionSetRef
      [] cls = "MXSample" -> MXSample
      [] cls = "MXSampleRef" -> MXSampleRef
      [] OTHER -> EmptyMap

Base(cls) ==
    CASE cls \in {"Dataset", "Job", "LogisticalSample", "PreparedSample"}
           -> "MxlimsObject"
      [] cls \in {"MXExperiment", "MXProcessing"} -> "Job"
      [] cls \in {"CollectionSweep", "ReflectionSet"} -> "Dataset"
      [] cls = "MXSample" -> "PreparedSample"
      [] OTHER -> "BaseModel"

(* model_fields: inherited fields, overridden by the subclass's own. *)
RECURSIVE Inherited(_)
Inherited(cls) ==
    IF cls = "BaseModel" THEN EmptyMap
    ELSE Merge(Inherited(Base(cls)), ClassTable(cls))

ModelFields ==
    [cls \in {"BaseModel", "MxlimsReference", "MxlimsObjectRef"}
                \cup CoreNames \cup CrystallographyNames |-> Inherited(cls)]

FieldsOf(cls) == ModelFields[cls]

RECURSIVE IsSubclass(_, _)
IsSubclass(c, d) ==
    \/ c = d
    \/ c # "BaseModel" /\ IsSubclass(Base(c), d)

-----------------------------------------------------------------------------
(* Validation (pydantic's default configuration: lax mode, extra="ignore", *)
(* validate_default=False, validate_assignment=False,                      *)
(* revalidate_instances="never").                                          *)

(* Text forms str -> uuid.UUID and str -> datetime parse. *)
IsUuidText(s) == s \in {"uuid4", "0a1b2c3d4e5f60718293a4b5c6d7e8f9"}
IsDatetimeText(s) == s \in {"2024-10-17T12:00:00", "2024-10-18T08:30:00"}

Err(loc, type) == [loc |-> loc, type |-> type]
Ok(v) == [errs |-> {}, v |-> v]
Bad(type) == [errs |-> {Err(<<>>, type)}, v |-> PyNone]
Under(p, errs) == {Err(<<p>> \o e.loc, e.type) : e \in errs}

Milli(v) == IF v.k = "int" THEN v.n * 1000 ELSE v.milli

Satisfies(m, c) ==
    CASE c.op = "ge" -> m >= c.b
      [] c.op = "le" -> m <= c.b
      [] c.op = "gt" -> m > c.b
      [] c.op = "lt" -> m < c.b

ConsError(c) ==
    CASE c.op = "ge" -> "greater_than_equal"
      [] c.op = "le" -> "less_than_equal"
      [] c.op = "gt" -> "greater_than"
      [] c.op = "lt" -> "less_than"

(* The class of an instance value: a record the application holds, or a    *)
(* nested one. *)
ClassOf(v, h) == IF v.k = "ref" THEN h[v.at].cls ELSE v.cls
FieldsOfInstance(v, h) == IF v.k = "ref" THEN h[v.at].fields ELSE v.fields
IsInstance(v) == v.k \in {"ref", "inst"}

(* The tag values a union member answers to: the Literal its class         *)
(* declares for the discriminator field. *)
TagOf(member, disc) ==
    IF disc \in DOMAIN FieldsOf(member) /\ FieldsOf(member)[disc].type = "literal"
    THEN {FieldsOf(member)[disc].of} ELSE {}

(* The discriminator's value in a payload or an instance; None when absent. *)
TagIn(v, disc, h) ==
    IF v.k = "dict"
    THEN IF disc \in DOMAIN v.map THEN v.map[disc] ELSE PyNone
    ELSE IF disc \in DOMAIN FieldsOfInstance(v, h)
         THEN FieldsOfInstance(v, h)[disc] ELSE PyNone

Tagged(u, tag) ==
    {j \in DOMAIN u.members :
        tag.k = "str" /\ tag.s \in TagOf(u.members[j], u.discriminator)}

(* A field's default: default= as it stands (validate_default is off), or  *)
(* what default_factory returns. *)
Default(d, g) ==
    IF d.default = Required THEN Bad("missing")
    ELSE IF d.default.k = "factory"
         THEN CASE d.default.of = "uuid4" -> Ok(Uuid4(g))
                [] d.default.of = "list" -> Ok(PyList(<<>>))
                [] d.default.of = "dict" -> Ok(PyDict(EmptyMap))
         ELSE Ok(d.default)

(* The results of a record's fields, of a list's items or of a dict's      *)
(* values, put together: every error is reported, under its location. *)
Gather(rs) ==
    [errs |-> UNION {Under(f, rs[f].errs) : f \in DOMAIN rs},
     v |-> [f \in DOMAIN rs |-> rs[f].v]]
GatherItems(rs) ==
    [errs |-> UNION {Under(ToString(i - 1), rs[i].errs) : i \in DOMAIN rs},
     v |-> [i \in DOMAIN rs |-> rs[i].v]]

AsModel(cls, r) ==
    [errs |-> r.errs, v |-> [k |-> "inst", cls |-> cls, fields |-> r.v]]
AsList(r) == [errs |-> r.errs, v |-> PyList(r.v)]
AsTuple(r) == [errs |-> r.errs, v |-> [k |-> "tuple", items |-> r.v]]
AsDict(r) == [errs |-> r.errs, v |-> PyDict(r.v)]

(* ge=, le=, gt= on a value that passed its type. *)
Constrained(d, typed) ==
    IF typed.errs = {} /\ typed.v.k \in {"int", "float"}
       /\ \E c \in d.cons : ~Satisfies(Milli(typed.v), c)
    THEN [errs |-> {Err(<<>>, ConsError(c)) :
                      c \in {x \in d.cons : ~Satisfies(Milli(typed.v), x)}},
          v |-> PyNone]
    ELSE typed

TypeError(d) == IF d.type = "str" THEN "string_type" ELSE d.type \o "_type"

RECURSIVE Typed(_, _, _, _)
RECURSIVE ValidateModel(_, _, _, _)
RECURSIVE ValidateUnion(_, _, _, _, _)

(* One value against one field declaration. *)
Validate(d, v, h, g) == Constrained(d, Typed(d, v, h, g))

(* Construction of cls from keyword input: a declared field is validated   *)
(* when supplied, takes its default unvalidated when not, and is reported  *)
(* missing when it has none; undeclared keys are ignored.  g names the     *)
(* construction, for the uuid4 calls made under it.                        *)
ValidateModel(cls, input, h, g) ==
    Gather([f \in DOMAIN FieldsOf(cls) |->
              IF f \in DOMAIN input
              THEN Constrained(FieldsOf(cls)[f],
                               Typed(FieldsOf(cls)[f], input[f], h, g \o <<f>>))
              ELSE Default(FieldsOf(cls)[f], g)])

(* Union[...] members i..: with a discriminator the member is chosen by    *)
(* the tag alone; without one the first member that validates is taken.    *)
ValidateUnion(u, v, h, g, i) ==
    IF u.discriminator # ""
    THEN IF ~(v.k = "dict" \/ IsInstance(v)) THEN Bad("model_attributes_type")
         ELSE IF TagIn(v, u.discriminator, h) = PyNone THEN Bad("union_tag_not_found")
         ELSE IF Tagged(u, TagIn(v, u.discriminator, h)) = {}
              THEN Bad("union_tag_invalid")
         ELSE Typed(Item("model",
                         u.members[CHOOSE j \in Tagged(u, TagIn(v, u.discriminator, h)) : TRUE]),
                    v, h, g)
    ELSE IF i > Len(u.members) THEN Bad("model_type")
    ELSE IF IsInstance(v) /\ IsSubclass(ClassOf(v, h), u.members[i]) THEN Ok(v)
    ELSE IF v.k = "dict" /\ ValidateModel(u.members[i], v.map, h, g).errs = {}
         THEN AsModel(u.members[i], ValidateModel(u.members[i], v.map, h, g))
    ELSE ValidateUnion(u, v, h, g, i + 1)

Typed(d, v, h, g) ==
    IF v.k = "none"
    THEN IF d.nullable \/ d.type = "any" THEN Ok(PyNone) ELSE Bad(TypeError(d))
    ELSE
    CASE d.type = "any" -> Ok(v)
      [] d.type = "str" ->
           IF v.k = "str" THEN Ok(v) ELSE Bad("string_type")
      [] d.type = "int" ->
           IF v.k = "int" THEN Ok(v)
           ELSE IF v.k = "float"
                THEN IF v.milli % 1000 = 0 THEN Ok(PyInt(v.milli \div 1000))
                     ELSE Bad("int_from_float")
                ELSE Bad("int_type")
      [] d.type = "float" ->
           IF v.k = "float" THEN Ok(v)
           ELSE IF v.k = "int" THEN Ok(PyFloat(v.n * 1000))
                ELSE Bad("float_type")
      [] d.type = "bool" ->
           IF v.k = "bool" THEN Ok(v) ELSE Bad("bool_type")
      [] d.type = "literal" ->
           IF v = PyStr(d.of) THEN Ok(v) ELSE Bad("literal_error")
      [] d.type = "enum" ->
           IF v.k = "enum" /\ v.enum = d.of THEN Ok(v)
           ELSE IF v.k = "str"
                   /\ \E m \in DOMAIN EnumMembers(d.of) : EnumMembers(d.of)[m] = v.s
                THEN Ok(Member(d.of, CHOOSE m \in DOMAIN EnumMembers(d.of) :
                                        EnumMembers(d.of)[m] = v.s))
                ELSE Bad("enum")
      [] d.type = "uuid" ->
           IF v.k = "uuid" THEN Ok(v)
           ELSE IF v.k = "str"
                THEN IF IsUuidText(v.s) THEN Ok([v EXCEPT !.k = "uuid"])
                     ELSE Bad("uuid_parsing")
                ELSE Bad("uuid_type")
      [] d.type = "datetime" ->
           IF v.k = "datetime" THEN Ok(v)
           ELSE IF v.k = "str"
                THEN IF IsDatetimeText(v.s) THEN Ok([v EXCEPT !.k = "datetime"])
                     ELSE Bad("datetime_from_date_parsing")
                ELSE Bad("datetime_type")
      [] d.type = "model" ->
           IF IsInstance(v)
           THEN IF IsSubclass(ClassOf(v, h), d.of) THEN Ok(v) ELSE Bad("model_type")
           ELSE IF v.k = "dict" THEN AsModel(d.of, ValidateModel(d.of, v.map, h, g))
                ELSE Bad("model_type")
      [] d.type = "list" ->
           IF v.k = "list"
           THEN AsList(GatherItems([i \in DOMAIN v.items |->
                    Constrained(d.of, Typed(d.of, v.items[i], h, g \o <<ToString(i)>>))]))
           ELSE Bad("list_type")
      [] d.type = "tuple" ->
           IF v.k \in {"list", "tuple"}
           THEN IF Len(v.items) < d.of.len THEN Bad("missing")
                ELSE IF Len(v.items) > d.of.len THEN Bad("too_long")
                ELSE AsTuple(GatherItems([i \in DOMAIN v.items |->
                         Constrained(d.of.item,
                                     Typed(d.of.item, v.items[i], h, g \o <<ToString(i)>>))]))
           ELSE Bad("tuple_type")
      [] d.type = "dict" ->
           IF v.k = "dict"
           THEN AsDict(Gather([key \in DOMAIN v.map |->
                    Constrained(d.of, Typed(d.of, v.map[key], h, g \o <<key>>))]))
           ELSE Bad("dict_type")
      [] d.type = "union" -> ValidateUnion(d.of, v, h, g, 1)

-----------------------------------------------------------------------------
(* JSON: model_dump_json, then model_validate_json on its output. *)

JsonNull == [k |-> "null"]

Plain(j) == [circular |-> FALSE, j |-> j]
JoinList(rs) ==
    [circular |-> \E i \in DOMAIN rs : rs[i].circular,
     j |-> PyList([i \in DOMAIN rs |-> rs[i].j])]
JoinDict(rs) ==
    [circular |-> \E f \in DOMAIN rs : rs[f].circular,
     j |-> PyDict([f \in DOMAIN rs |-> rs[f].j])]

(* The declaration a container's elements are serialized by. *)
ItemOf(d) ==
    CASE d.type \in {"list", "dict"} -> d.of
      [] d.type = "tuple" -> d.of.item
      [] OTHER -> Item("any", "")

RECURSIVE DumpAs(_, _, _, _)

(* The serializer of a model type emits the fields that type declares;     *)
(* `seen` holds the records being serialized, to detect a cycle. *)
DumpModel(cls, fields, h, seen) ==
    JoinDict([f \in DOMAIN FieldsOf(cls) |->
                DumpAs(FieldsOf(cls)[f], fields[f], h, seen)])

DumpAs(d, v, h, seen) ==
    CASE v.k = "none" -> Plain(JsonNull)
      [] v.k \in {"str", "int", "float", "bool"} -> Plain(v)
      [] v.k = "enum" -> Plain(PyStr(EnumMembers(v.enum)[v.name]))
      [] v.k \in {"uuid", "datetime"} -> Plain([v EXCEPT !.k = "str"])
      [] v.k = "ref" ->
           IF v.at \in seen THEN [circular |-> TRUE, j |-> JsonNull]
           ELSE DumpModel(IF d.type = "model" THEN d.of ELSE h[v.at].cls,
                          h[v.at].fields, h, seen \cup {v.at})
      [] v.k = "inst" ->
           DumpModel(IF d.type = "model" THEN d.of ELSE v.cls, v.fields, h, seen)
      [] v.k \in {"list", "tuple"} ->
           JoinList([i \in DOMAIN v.items |-> DumpAs(ItemOf(d), v.items[i], h, seen)])
      [] v.k = "dict" ->
           JoinDict([key \in DOMAIN v.map |-> DumpAs(ItemOf(d), v.map[key], h, seen)])

(* JSON text back to input values: null is None. *)
RECURSIVE Loads(_)
Loads(j) ==
    CASE j.k = "null" -> PyNone
      [] j.k = "list" -> PyList([i \in DOMAIN j.items |-> Loads(j.items[i])])
      [] j.k = "dict" -> PyDict([key \in DOMAIN j.map |-> Loads(j.map[key])])
      [] OTHER -> j

(* BaseModel.__eq__: same class and equal field values; a held record is   *)
(* compared by its content. *)
RECURSIVE Content(_, _)
Content(v, h) ==
    CASE v.k = "ref" ->
           [k |-> "inst", cls |-> h[v.at].cls,
            fields |-> [f \in DOMAIN h[v.at].fields |-> Content(h[v.at].fields[f], h)]]
      [] v.k = "inst" ->
           [k |-> "inst", cls |-> v.cls,
            fields |-> [f \in DOMAIN v.fields |-> Content(v.fields[f], h)]]
      [] v.k \in {"list", "tuple"} ->
           [v EXCEPT !.items = [i \in DOMAIN v.items |-> Content(v.items[i], h)]]
      [] v.k = "dict" ->
           [v EXCEPT !.map = [key \in DOMAIN v.map |-> Content(v.map[key], h)]]
      [] OTHER -> v

SameContent(a, b, h) ==
    [f \in DOMAIN a |-> Content(a[f], h)] = [f \in DOMAIN b |-> Content(b[f], h)]

-----------------------------------------------------------------------------
(* The interpreter *)

Unloaded == [status |-> "unloaded", error |-> "", at |-> 0, names |-> {}]

(* import mxlims.pydantic.<m>: a loaded module is not executed again, a    *)
(* failed one is left out of sys.modules and executed again next time;     *)
(* crystallography imports core first. *)
Imported(m) ==
    IF m = "core"
    THEN [modules EXCEPT
            !.core = [status |-> "loaded", error |-> "", at |-> 0, names |-> CoreNames]]
    ELSE [modules EXCEPT
            !.core = [status |-> "loaded", error |-> "", at |-> 0, names |-> CoreNames],
            !.crystallography = ExecCrystallography]

NoCall == [op |-> "none"]

Init ==
    /\ modules = [core |-> Unloaded, crystallography |-> Unloaded]
    /\ heap = <<>>
    /\ uuidCalls = 0
    /\ last = NoCall
    /\ files = EmptyMap

Import(m) ==
    /\ modules[m].status # "loaded"
    /\ modules' = Imported(m)
    /\ last' = [op |-> "import", module |-> m,
                outcome |-> IF Imported(m)[m].status = "loaded" THEN "ok"
                            ELSE Imported(m)[m].error]
    /\ UNCHANGED <<heap, uuidCalls, files>>

(* What cls(input) returns or raises, given the validation's result. *)
Judged(r) ==
    IF r.errs # {}
    THEN [outcome |-> "ValidationError", errs |-> r.errs, fields |-> EmptyMap]
    ELSE [outcome |-> "ok", errs |-> {}, fields |-> r.v]

(* from <module> import cls; cls(input) *)
Built(cls, input) ==
    IF cls \notin Imported(ModuleOf(cls))[ModuleOf(cls)].names
    THEN [outcome |-> Imported(ModuleOf(cls))[ModuleOf(cls)].error, errs |-> {},
          fields |-> EmptyMap]
    ELSE Judged(ValidateModel(cls, input, heap, <<ToString(uuidCalls + 1)>>))

(* Hold as it would be were a new Dataset entered into the results of its  *)
(* source Job. *)
HoldSynced(cls, input, keep, b) ==
    /\ keep => Len(heap) < MaxRecords /\ b.outcome = "ok"
    /\ modules' = Imported(ModuleOf(cls))
    /\ heap' = IF keep
               THEN Append(IF "source" \in DOMAIN b.fields /\ b.fields.source.k = "ref"
                           THEN [heap EXCEPT ![b.fields.source.at].fields.results.items =
                                     Append(@, Ref(Len(heap) + 1))]
                           ELSE heap,
                           [cls |-> cls, fields |-> b.fields,
                            born |-> IF "uuid" \in DOMAIN b.fields
                                     THEN b.fields.uuid ELSE PyNone])
               ELSE heap
    /\ uuidCalls' = IF keep /\ "uuid" \in DOMAIN b.fields \ DOMAIN input
                    THEN uuidCalls + 1 ELSE uuidCalls
    /\ last' = [op |-> "construct", cls |-> cls, input |-> input,
                outcome |-> b.outcome, errs |-> b.errs, fields |-> b.fields,
                kept |-> keep]
    /\ UNCHANGED files

(* The record b that the call built is the application's to keep or drop. *)
Hold(cls, input, keep, b) ==
    /\ keep => Len(heap) < MaxRecords /\ b.outcome = "ok"
    /\ modules' = Imported(ModuleOf(cls))
    /\ heap' = IF keep
               THEN Append(heap, [cls |-> cls, fields |-> b.fields,
                                  born |-> IF "uuid" \in DOMAIN b.fields
                                           THEN b.fields.uuid ELSE PyNone])
               ELSE heap
    /\ uuidCalls' = IF keep /\ "uuid" \in DOMAIN b.fields \ DOMAIN input
                    THEN uuidCalls + 1 ELSE uuidCalls
    /\ last' = [op |-> "construct", cls |-> cls, input |-> input,
                outcome |-> b.outcome, errs |-> b.errs, fields |-> b.fields,
                kept |-> keep]
    /\ UNCHANGED files

Construct(cls, input, keep) == Hold(cls, input, keep, Built(cls, input))

(* setattr as it would be were no field declared frozen=True. *)
SetAttrUnfrozen(cls, f) ==
    IF f \notin DOMAIN FieldsOf(cls) THEN "no_field" ELSE "ok"

(* setattr(record, f, v) on a record the application holds: a frozen field *)
(* raises, any other declared field takes the value as it is. *)
SetAttr(cls, f) ==
    IF f \notin DOMAIN FieldsOf(cls) THEN "no_field"
    ELSE IF FieldsOf(cls)[f].frozen THEN "frozen_field"
    ELSE "ok"

(* Assign as it would be under validate_assignment=True. *)
AssignValidated(i, f, v) ==
    /\ i \in DOMAIN heap
    /\ heap' = IF SetAttr(heap[i].cls, f) = "ok"
                  /\ Validate(FieldsOf(heap[i].cls)[f], v, heap, <<>>).errs = {}
               THEN [heap EXCEPT ![i].fields[f] = v] ELSE heap
    /\ last' = [op |-> "assign", at |-> i, cls |-> heap[i].cls, field |-> f,
                value |-> v, before |-> heap[i].fields[f],
                outcome |-> IF FieldsOf(heap[i].cls)[f].frozen THEN "frozen_field"
                            ELSE IF Validate(FieldsOf(heap[i].cls)[f], v, heap, <<>>).errs = {}
                                 THEN "ok" ELSE "ValidationError"]
    /\ UNCHANGED <<modules, uuidCalls, files>>

Assign(i, f, v) ==
    /\ i \in DOMAIN heap
    /\ heap' = IF SetAttr(heap[i].cls, f) = "ok"
               THEN [heap EXCEPT ![i].fields[f] = v] ELSE heap
    /\ last' = [op |-> "assign", at |-> i, cls |-> heap[i].cls, field |-> f,
                value |-> v, before |-> heap[i].fields[f],
                outcome |-> SetAttr(heap[i].cls, f)]
    /\ UNCHANGED <<modules, uuidCalls, files>>

(* r = cls(input); cls.model_validate_json(r.model_dump_json()) == r *)
Compared(b, d, r) ==
    IF d.circular THEN [outcome |-> "ValueError", errs |-> {}, json |-> JsonNull]
    ELSE IF r.errs # {}
         THEN [outcome |-> "ValidationError", errs |-> r.errs, json |-> d.j]
    ELSE IF SameContent(b.fields, r.v, heap)
         THEN [outcome |-> "equal", errs |-> {}, json |-> d.j]
    ELSE [outcome |-> "differs", errs |-> {}, json |-> d.j]

Reparsed(cls, b, d) ==
    Compared(b, d, IF d.circular THEN Bad("circular")
                   ELSE ValidateModel(cls, Loads(d.j).map, heap,
                                      <<ToString(uuidCalls + 1), "json">>))

Returned(cls, b) ==
    IF b.outcome # "ok"
    THEN [outcome |-> b.outcome, errs |-> b.errs, json |-> JsonNull]
    ELSE Reparsed(cls, b, DumpModel(cls, b.fields, heap, {}))

Report(cls, input, b, t) ==
    /\ modules' = Imported(ModuleOf(cls))
    /\ last' = [op |-> "roundtrip", cls |-> cls, input |-> input,
                built |-> b.outcome, outcome |-> t.outcome, errs |-> t.errs,
                json |-> t.json]
    /\ UNCHANGED <<heap, uuidCalls, files>>

RoundTrip(cls, input) ==
    Report(cls, input, Built(cls, input), Returned(cls, Built(cls, input)))

-----------------------------------------------------------------------------
(* The calls an application makes: the classes and the inputs they are     *)
(* drawn from. *)

Enums == {"JobStatus", "PdbxSignalType", "QualityFactorType", "ReflectionBinningMode"}
Classes == (CoreNames \cup CrystallographyNames) \ Enums

ConcreteTypes ==
    {"LogisticalSample", "CollectionSweep", "ReflectionSet", "MXExperiment",
     "MXProcessing", "MXSample"}
RefTypes ==
    {"MXExperimentRef", "CollectionSweepRef", "MXProcessingRef",
     "ReflectionSetRef", "MXSampleRef"}
Referenced(ref) ==
    CASE ref = "MXExperimentRef" -> "MXExperiment"
      [] ref = "CollectionSweepRef" -> "CollectionSweep"
      [] ref = "MXProcessingRef" -> "MXProcessing"
      [] ref = "ReflectionSetRef" -> "ReflectionSet"
      [] ref = "MXSampleRef" -> "MXSample"

RequiredFields(cls) ==
    {f \in DOMAIN FieldsOf(cls) : FieldsOf(cls)[f].default = Required}

(* A valid value for a field, by its declaration. *)
RECURSIVE SampleValue(_)
SampleValue(d) ==
    CASE d.type = "literal" -> PyStr(d.of)
      [] d.type = "str" -> PyStr("Omega")
      [] d.type = "int" -> PyInt(1)
      [] d.type = "float" -> PyFloat(1000)
      [] d.type = "bool" -> PyBool(TRUE)
      [] d.type = "enum" ->
           Member(d.of, CHOOSE m \in DOMAIN EnumMembers(d.of) : TRUE)
      [] d.type = "tuple" ->
           PyList([i \in 1..d.of.len |-> SampleValue(d.of.item)])
      [] d.type = "list" -> PyList(<<>>)
      [] d.type = "dict" -> PyDict(EmptyMap)
      [] OTHER -> PyNone

(* Every field that has no default, supplied with a valid value. *)
MinimalInput(cls) ==
    [f \in RequiredFields(cls) |-> SampleValue(FieldsOf(cls)[f])]

Omit(input, f) == [x \in DOMAIN input \ {f} |-> input[x]]
With(input, f, v) == Merge(input, [x \in {f} |-> v])

(* The values at, just below and just above each bound of a field. *)
BoundaryValues(d) ==
    {IF d.type = "int" THEN PyInt((c.b \div 1000) + delta)
     ELSE PyFloat(c.b + delta) : c \in d.cons, delta \in {-1, 0, 1}}

(* Input faults, one field each: a required field left out, a value       *)
(* outside the declared range, a value of the wrong type, a string that    *)
(* names no member of the enumeration. *)
Fault(f, kind, v) == [f |-> f, kind |-> kind, v |-> v]
OutOfRange(d) ==
    LET c == CHOOSE x \in d.cons : TRUE
        m == IF c.op \in {"ge", "gt"} THEN c.b - 1 ELSE c.b + 1
    IN IF d.type = "int" THEN PyInt((c.b \div 1000) + (m - c.b)) ELSE PyFloat(m)
WrongType(d) == IF d.type \in {"list", "dict", "tuple"} THEN PyInt(1) ELSE PyList(<<>>)
Scalars == {"str", "int", "float", "bool", "datetime"}
FaultsOfKind(cls, kind) ==
    LET F == FieldsOf(cls) IN
    CASE kind = "missing" ->
           {Fault(f, kind, PyNone) : f \in RequiredFields(cls)}
      [] kind = "range" ->
           {Fault(f, kind, OutOfRange(F[f])) : f \in {x \in DOMAIN F : F[x].cons # {}}}
      [] kind = "type" ->
           {Fault(f, kind, WrongType(F[f])) :
              f \in {x \in DOMAIN F : F[x].type \in Scalars /\ F[x].cons = {}
                                       /\ F[x].default # Required}}
      [] kind = "enum" ->
           {Fault(f, kind, PyStr("Bogus")) :
              f \in {x \in DOMAIN F : F[x].type = "enum" /\ F[x].default # Required}}
FaultKinds == {"missing", "range", "type", "enum"}
(* One fault of each kind the class has room for. *)
Faults(cls) ==
    {CHOOSE ft \in FaultsOfKind(cls, kind) : TRUE :
        kind \in {k \in FaultKinds : FaultsOfKind(cls, k) # {}}}
FaultSets(cls) == {S \in SUBSET Faults(cls) : Cardinality(S) >= 2}
Faulty(cls, S) ==
    LET left == {ft.f : ft \in {x \in S : x.kind = "missing"}}
        set == {ft.f : ft \in {x \in S : x.kind # "missing"}}
    IN [f \in (DOMAIN MinimalInput(cls) \ left) \cup set |->
          IF f \in set THEN (CHOOSE ft \in S : ft.f = f).v
          ELSE MinimalInput(cls)[f]]

(* Members of the typed collection fields, as JSON payloads. *)
UnionFields(cls) ==
    {f \in DOMAIN FieldsOf(cls) :
        FieldsOf(cls)[f].type = "list" /\ FieldsOf(cls)[f].of.type = "union"
        /\ FieldsOf(cls)[f].of.of.discriminator # ""}
EmbeddedPayload(T) == PyDict(MinimalInput(T))
ReferenceInput(T) == [target_type |-> PyStr(T), uuid |-> PyStr("u1")]
Payloads ==
    {EmbeddedPayload("CollectionSweep"), EmbeddedPayload("ReflectionSet"),
     PyDict(ReferenceInput("CollectionSweep")),
     PyDict(ReferenceInput("ReflectionSet")),
     PyDict([mxlims_type |-> PyStr("Bogus")]),
     PyDict([target_type |-> PyStr("Bogus"), uuid |-> PyStr("u1")]),
     PyDict(EmptyMap)}

StatusTexts ==
    {"Template", "Ready", "Running", "Completed", "Failed", "Aborted",
     "\tFailed", "Bogus", "failed"}

SweepScenario ==
    [scan_axis |-> PyStr("Omega"),
     axis_positions_start |-> PyDict([Omega |-> PyFloat(0)]),
     axis_positions_end |-> PyDict([Omega |-> PyFloat(180000)]),
     image_width |-> PyFloat(100)]

(* What a test of one class constructs. *)
TestInputs(cls) ==
    {MinimalInput(cls), EmptyMap}
    \cup {Omit(MinimalInput(cls), f) : f \in RequiredFields(cls)}
    \cup UNION {{With(MinimalInput(cls), f, v) : v \in BoundaryValues(FieldsOf(cls)[f])} :
                  f \in DOMAIN FieldsOf(cls)}
    \cup UNION {{With(MinimalInput(cls), f, PyList(<<p>>)) : p \in Payloads} :
                  f \in UnionFields(cls)}
    \cup (IF cls \in RefTypes
          THEN {ReferenceInput(Referenced(cls)),
                With(ReferenceInput(Referenced(cls)), "mxlims_type",
                     PyStr(Referenced(cls)))}
          ELSE {})
    \cup (IF "job_status" \in DOMAIN FieldsOf(cls)
          THEN {With(MinimalInput(cls), "job_status", PyStr(s)) : s \in StatusTexts}
          ELSE {})
    \cup (IF "uuid" \in DOMAIN FieldsOf(cls)
          THEN {With(MinimalInput(cls), "uuid", PyStr("u1"))}
          ELSE {})
    \cup (IF cls = "CollectionSweep"
          THEN {SweepScenario, With(SweepScenario, "mxlims_type", PyStr(cls))}
          ELSE {})
    \cup {Faulty(cls, S) : S \in FaultSets(cls)}

(* What the application constructs and may keep. *)
AppClasses == {"Job", "Dataset", "LogisticalSample", "MXExperiment", "UnitCell"}
AppInputs(cls) ==
    {MinimalInput(cls)}
    \cup (IF "uuid" \in DOMAIN FieldsOf(cls)
          THEN {With(MinimalInput(cls), "uuid", PyStr("u1"))}
          ELSE {})

(* What the application assigns: a value to each frozen field, and a new   *)
(* status. *)
AssignValues(cls, f) ==
    LET d == FieldsOf(cls)[f] IN
    IF d.frozen
    THEN {IF d.type \in {"str", "uuid"} THEN PyStr("u2")
          ELSE IF d.type = "float" THEN PyFloat(2000)
          ELSE PyNone}
    ELSE IF f = "job_status" THEN {Member("JobStatus", "Running")}
    ELSE {}

(* The classes with enum or range-constrained fields that an application   *)
(* holds records of, what it constructs them from, and the values it       *)
(* assigns to those fields later: a member of the enumeration, a string    *)
(* that names none, a value inside and one outside the range. *)
ValueClasses == {"Job", "MXExperiment", "CollectionSweep", "ReflectionSet"}
ValueInputs(cls) ==
    AppInputs(cls)
    \cup (IF "job_status" \in DOMAIN FieldsOf(cls)
          THEN {With(MinimalInput(cls), "job_status", PyStr(t)) :
                  t \in {"Running", "Bogus"}}
          ELSE {})
    \cup UNION {{With(MinimalInput(cls), f, v) : v \in BoundaryValues(FieldsOf(cls)[f])} :
                  f \in DOMAIN FieldsOf(cls)}
NewValues(cls, f) ==
    LET d == FieldsOf(cls)[f] IN
    IF d.frozen THEN {}
    ELSE IF d.type = "enum"
         THEN {Member(d.of, CHOOSE m \in DOMAIN EnumMembers(d.of) : TRUE),
               PyStr("Bogus")}
    ELSE IF d.cons # {} THEN BoundaryValues(d) \cup {OutOfRange(d)}
    ELSE {}

-----------------------------------------------------------------------------
(* The schema export: python -m mxlims.pydantic.crystallography            *)

ExportList ==
    <<"LogisticalSample", "CollectionSweep", "ReflectionSet", "MXExperiment",
      "MXProcessing", "MXSample">>

FileName(tag) == tag \o "_schema.json"

(* The fields a class declares with neither description= nor a description *)
(* in json_schema_extra. *)
Undescribed(cls) ==
    CASE cls = "UnitCell" -> {"a"}
      [] cls \in {"MXExperiment", "CollectionSweep", "MXProcessing", "ReflectionSet",
                  "MXSample"} -> {"mxlims_type"}
      [] cls \in RefTypes -> {"target_type"}
      [] OTHER -> {}

(* The class, cls or the nearest of its bases, whose declaration of f holds. *)
RECURSIVE Owner(_, _)
Owner(cls, f) ==
    IF f \in DOMAIN ClassTable(cls) THEN cls ELSE Owner(Base(cls), f)

(* cls.model_json_schema(): a property per model field, with the           *)
(* description its declaration gives, and the list of required fields. *)
ModelJsonSchema(cls) ==
    [title |-> cls,
     properties |-> [f \in DOMAIN FieldsOf(cls) |->
                       [description |-> f \notin Undescribed(Owner(cls, f))]],
     required |-> RequiredFields(cls)]

(* The loop from position i on: the schema of the type, then               *)
(* open(name, "w"), which raises where the directory refuses the name, and *)
(* json.dump; an exception ends the run, what was written stays written.   *)
RECURSIVE ExportLoop(_, _, _, _)
ExportLoop(i, fs, blocked, attempted) ==
    IF i > Len(ExportList)
    THEN [outcome |-> "ok", attempted |-> attempted, files |-> fs]
    ELSE IF FileName(ExportList[i]) \in blocked
         THEN [outcome |-> "OSError", attempted |-> Append(attempted, ExportList[i]),
               files |-> fs]
    ELSE ExportLoop(i + 1,
                    Merge(fs, [n \in {FileName(ExportList[i])} |->
                                 ModelJsonSchema(ExportList[i])]),
                    blocked, Append(attempted, ExportList[i]))

(* The module run as __main__: its body first, the loop when the body      *)
(* raised nothing. *)
Main(m, blocked) ==
    IF m.status # "loaded"
    THEN [outcome |-> m.error, attempted |-> <<>>, files |-> files]
    ELSE ExportLoop(1, files, blocked, <<>>)

Exit(blocked, r) ==
    /\ files' = r.files
    /\ last' = [op |-> "export", blocked |-> blocked, outcome |-> r.outcome,
                attempted |-> r.attempted, before |-> files,
                written |-> {FileName(r.attempted[i]) :
                               i \in 1..(IF r.outcome = "ok" THEN Len(r.attempted)
                                         ELSE Len(r.attempted) - 1)}]
    /\ UNCHANGED <<modules, heap, uuidCalls>>

(* One run of the export, in a process of its own, in a directory that     *)
(* refuses the names in blocked. *)
Export(blocked) == Exit(blocked, Main(ExecCrystallography, blocked))

Refusals == {{}} \cup {{FileName(ExportList[i])} : i \in DOMAIN ExportList}

-----------------------------------------------------------------------------
(* Records that refer to each other: a Job and the Datasets it produced,   *)
(* a LogisticalSample and the ones it contains. *)

LinkClasses == {"Job", "Dataset"}
ContainerClasses == {"LogisticalSample"}

Held(cls) == {i \in DOMAIN heap : IsSubclass(heap[i].cls, cls)}

(* Keyword arguments that link the new record to records held. *)
LinkInputs(cls) ==
    {EmptyMap} \cup
    CASE cls = "LogisticalSample" ->
           {[container |-> Ref(i)] : i \in Held("LogisticalSample")}
           \cup {[contents |-> PyList(<<Ref(i)>>)] : i \in Held("LogisticalSample")}
      [] cls = "Dataset" -> {[source |-> Ref(j)] : j \in Held("Job")}
      [] cls = "Job" ->
           {[results |-> PyList(<<Ref(d)>>)] : d \in Held("Dataset")}
           \cup {[input_data |-> PyList(<<Ref(d)>>)] : d \in Held("Dataset")}

(* record.<list field>.append(x) *)
Appended(i, f, cls) ==
    {PyList(Append(heap[i].fields[f].items, Ref(j))) :
        j \in {x \in Held(cls) : Len(heap[i].fields[f].items) < MaxMembers
                                 /\ Ref(x) \notin Range(heap[i].fields[f].items)}}

(* The link fields an application sets on a record it holds, and the       *)
(* values it sets them to. *)
LinkValues(i, f) ==
    CASE heap[i].cls = "LogisticalSample" /\ f = "container" ->
           {Ref(j) : j \in Held("LogisticalSample")}
      [] heap[i].cls = "LogisticalSample" /\ f = "contents" ->
           Appended(i, f, "LogisticalSample")
      [] heap[i].cls = "Job"
         /\ f \in {"results", "input_data", "templates", "reference_data"} ->
           Appended(i, f, "Dataset")
      [] heap[i].cls = "Dataset" /\ f = "source" -> {Ref(j) : j \in Held("Job")}
      [] OTHER -> {}

-----------------------------------------------------------------------------
(* Specifications *)

Importing == \E m \in {"core", "crystallography"} : Import(m)

Constructing ==
    \E cls \in AppClasses : \E input \in AppInputs(cls) : \E keep \in BOOLEAN :
        Construct(cls, input, keep)

Assigning ==
    \E i \in DOMAIN heap : \E f \in DOMAIN FieldsOf(heap[i].cls) :
        \E v \in AssignValues(heap[i].cls, f) : Assign(i, f, v)

RoundTripping ==
    \E cls \in AppClasses : \E input \in AppInputs(cls) : RoundTrip(cls, input)

(* An application that holds records. *)
Next == Importing \/ Constructing \/ Assigning \/ RoundTripping

Spec == Init /\ [][Next]_vars

Testing ==
    \E cls \in Classes : \E input \in TestInputs(cls) :
        Construct(cls, input, FALSE)

TestingRoundTrip ==
    \E cls \in Classes : \E input \in TestInputs(cls) : RoundTrip(cls, input)

Exporting == \E blocked \in Refusals : Export(blocked)

(* The calls of a test suite, and runs of the export. *)
NextCalls == Importing \/ Testing \/ TestingRoundTrip \/ Exporting

SpecCalls == Init /\ [][NextCalls]_vars

Linking ==
    \E cls \in LinkClasses : \E input \in LinkInputs(cls) : Construct(cls, input, TRUE)

Relinking ==
    \E i \in DOMAIN heap : \E f \in DOMAIN FieldsOf(heap[i].cls) :
        \E v \in LinkValues(i, f) : Assign(i, f, v)

Containing ==
    \E cls \in ContainerClasses : \E input \in LinkInputs(cls) :
        Construct(cls, input, TRUE)

(* An application that builds a graph of Jobs and Datasets. *)
NextLinks == Importing \/ Linking \/ Relinking

SpecLinks == Init /\ [][NextLinks]_vars

(* An application that builds a hierarchy of LogisticalSamples. *)
NextContainers == Importing \/ Containing \/ Relinking

SpecContainers == Init /\ [][NextContainers]_vars

Storing ==
    \E cls \in ValueClasses : \E input \in ValueInputs(cls) : \E keep \in BOOLEAN :
        Construct(cls, input, keep)

Revaluing ==
    \E i \in DOMAIN heap : \E f \in DOMAIN FieldsOf(heap[i].cls) :
        \E v \in NewValues(heap[i].cls, f) : Assign(i, f, v)

(* An application that sets the constrained fields of its records. *)
NextValues == Importing \/ Storing \/ Revaluing

SpecValues == Init /\ [][NextValues]_vars

-----------------------------------------------------------------------------
(* Properties *)

Constructed == last.op = "construct"
RoundTripped == last.op = "roundtrip"
Assigned == last.op = "assign"

(* C1: for every concrete entity type, a record built with only the        *)
(* required fields exists and its JSON round trip succeeds and yields an   *)
(* equal record, and so does the round trip of every other record that     *)
(* construction accepted. *)
C1_RoundTrip ==
    RoundTripped /\ last.cls \in ConcreteTypes =>
        /\ last.input = MinimalInput(last.cls) => last.outcome = "equal"
        /\ last.built = "ok" => last.outcome = "equal"

(* C2: in the typed collection fields of MXExperiment and MXProcessing, a  *)
(* member payload tagged mxlims_type with the field's concrete type        *)
(* becomes a record of that type, a payload tagged target_type with that   *)
(* type becomes the type's Ref record, and a payload with an unknown or    *)
(* missing tag makes construction fail. *)
C2_Payload(cls, f, p) ==
    LET T == FieldsOf(cls)[f].of.of.members[1] IN
    last.input = With(MinimalInput(cls), f, PyList(<<p>>)) =>
        CASE p = EmbeddedPayload(T) ->
               /\ last.outcome = "ok"
               /\ last.fields[f].items[1].k = "inst"
               /\ last.fields[f].items[1].cls = T
          [] p = PyDict(ReferenceInput(T)) ->
               /\ last.outcome = "ok"
               /\ last.fields[f].items[1].k = "inst"
               /\ Referenced(last.fields[f].items[1].cls) = T
          [] p \in {PyDict([mxlims_type |-> PyStr("Bogus")]),
                    PyDict([target_type |-> PyStr("Bogus"), uuid |-> PyStr("u1")]),
                    PyDict(EmptyMap)} ->
               last.outcome # "ok"
          [] OTHER -> TRUE
C2_UnionDispatch ==
    Constructed /\ last.cls \in {"MXExperiment", "MXProcessing"} =>
        \A f \in UnionFields(last.cls) : \A p \in Payloads :
            C2_Payload(last.cls, f, p)

(* C3: mxlims_type is a required literal of every concrete entity type and *)
(* of every reference type: construction without it fails, and an accepted *)
(* record holds the type's name (a reference: the referenced type's name). *)
C3_DiscriminatorRequired ==
    Constructed /\ last.cls \in ConcreteTypes \cup RefTypes =>
        /\ "mxlims_type" \notin DOMAIN last.input => last.outcome # "ok"
        /\ last.outcome = "ok" =>
             /\ "mxlims_type" \in DOMAIN last.fields
             /\ last.fields.mxlims_type =
                  PyStr(IF last.cls \in RefTypes THEN Referenced(last.cls)
                        ELSE last.cls)

(* C4: a reference built from target_type T and uuid u is accepted, both   *)
(* can be read back from the record, and its JSON holds both. *)
C4_ReferenceCarriesIdentifier ==
    /\ Constructed /\ last.cls \in RefTypes
       /\ last.input = ReferenceInput(Referenced(last.cls)) =>
           /\ last.outcome = "ok"
           /\ {"target_type", "uuid"} \subseteq DOMAIN last.fields
           /\ last.fields.target_type = PyStr(Referenced(last.cls))
           /\ last.fields.uuid = PyStr("u1")
    /\ RoundTripped /\ last.cls \in RefTypes
       /\ last.input = ReferenceInput(Referenced(last.cls)) =>
           /\ last.built = "ok"
           /\ last.json.k = "dict"
           /\ {"target_type", "uuid"} \subseteq DOMAIN last.json.map
           /\ last.json.map.target_type = PyStr(Referenced(last.cls))
           /\ last.json.map.uuid = PyStr("u1")

(* The fields C5 lists as frozen. *)
ClaimedFrozen(cls, f) ==
    \/ f = "uuid"
    \/ IsSubclass(cls, "Dataset")
       /\ f \in {"source", "role", "logistical_sample", "derived_from_id"}
    \/ IsSubclass(cls, "Job") /\ f \in {"sample", "logistical_sample"}
    \/ cls = "UnitCell" /\ f \in {"a", "b", "c", "alpha", "beta", "gamma"}

(* C5: a type with frozen fields is constructed from valid values; every   *)
(* later assignment to a frozen field fails with the immutability error    *)
(* and leaves the value as it was, and an assignment to any other field    *)
(* is accepted and sets it. *)
C5_FrozenFields ==
    /\ Constructed /\ last.input = MinimalInput(last.cls)
       /\ (\E f \in DOMAIN FieldsOf(last.cls) : ClaimedFrozen(last.cls, f)) =>
           last.outcome = "ok"
    /\ Assigned =>
           IF ClaimedFrozen(last.cls, last.field)
           THEN /\ last.outcome = "frozen_field"
                /\ heap[last.at].fields[last.field] = last.before
           ELSE /\ last.outcome = "ok"
                /\ heap[last.at].fields[last.field] = last.value

Generated(v) == v.k = "str" /\ v.s = "uuid4"

(* C6 as stated: no two records the application holds have the same uuid,  *)
(* and each holds the uuid it was constructed with. *)
C6_UuidUniqueAndFixed ==
    /\ \A i, j \in DOMAIN heap : i # j => heap[i].fields.uuid # heap[j].fields.uuid
    /\ \A i \in DOMAIN heap : heap[i].fields.uuid = heap[i].born

(* C6 amended: each record holds the uuid it was constructed with, every   *)
(* assignment to uuid is refused, and two records whose uuids were both    *)
(* generated differ in uuid; a uuid the caller supplies is not checked     *)
(* against the records that exist. *)
C6_UuidFixedGeneratedUnique ==
    /\ \A i \in DOMAIN heap : heap[i].fields.uuid = heap[i].born
    /\ Assigned /\ last.field = "uuid" => last.outcome = "frozen_field"
    /\ \A i, j \in DOMAIN heap :
          i # j /\ Generated(heap[i].fields.uuid) /\ Generated(heap[j].fields.uuid)
              => heap[i].fields.uuid # heap[j].fields.uuid

C6_Witness ==
    /\ Len(heap) = 2
    /\ Generated(heap[1].fields.uuid) /\ Generated(heap[2].fields.uuid)
    /\ Assigned /\ last.field = "uuid" /\ last.value # heap[last.at].fields.uuid

(* C7: a concrete entity type is constructed from valid values of all the  *)
(* fields that have no default, and with any one of them left out          *)
(* construction fails with a validation error that names the field. *)
C7_RequiredFields ==
    Constructed /\ last.cls \in ConcreteTypes =>
        /\ last.input = MinimalInput(last.cls) => last.outcome = "ok"
        /\ \A f \in RequiredFields(last.cls) :
              last.input = Omit(MinimalInput(last.cls), f) =>
                  /\ last.outcome = "ValidationError"
                  /\ Err(<<f>>, "missing") \in last.errs

(* The ranges C8 lists, in thousandths; strict where the bound is open. *)
ClaimedRange(cls, f) ==
    CASE cls = "CollectionSweep" /\ f = "transmission" ->
           [lo |-> 0, strict |-> FALSE, hi |-> 100000, bounded |-> TRUE]
      [] cls = "ReflectionStatistics" /\ f = "completeness" ->
           [lo |-> 0, strict |-> FALSE, hi |-> 100000, bounded |-> TRUE]
      [] cls = "MXSample" /\ f = "radiation_sensitivity" ->
           [lo |-> 0, strict |-> FALSE, hi |-> 1000, bounded |-> TRUE]
      [] cls = "ReflectionStatistics"
         /\ f \in {"chi_squared", "redundancy", "redundancy_anomalous"} ->
           [lo |-> 0, strict |-> FALSE, hi |-> 0, bounded |-> FALSE]
      [] cls = "ReflectionSet"
         /\ f \in {"number_bins", "refln_per_bin", "refln_per_bin_per_sweep"} ->
           [lo |-> 0, strict |-> TRUE, hi |-> 0, bounded |-> FALSE]
      [] OTHER -> [lo |-> 0, strict |-> FALSE, hi |-> 0, bounded |-> FALSE]
ClaimedRanged ==
    {<<"CollectionSweep", "transmission">>,
     <<"ReflectionStatistics", "completeness">>,
     <<"MXSample", "radiation_sensitivity">>,
     <<"ReflectionStatistics", "chi_squared">>,
     <<"ReflectionStatistics", "redundancy">>,
     <<"ReflectionStatistics", "redundancy_anomalous">>,
     <<"ReflectionSet", "number_bins">>,
     <<"ReflectionSet", "refln_per_bin">>,
     <<"ReflectionSet", "refln_per_bin_per_sweep">>}
InClaimedRange(r, m) ==
    /\ IF r.strict THEN m > r.lo ELSE m >= r.lo
    /\ r.bounded => m <= r.hi

(* C8: a range-constrained field accepts exactly its declared range at     *)
(* construction: the bounds of a closed range are accepted, the values     *)
(* just outside are rejected, and an open bound itself is rejected. *)
C8_Ranges ==
    Constructed =>
        \A cf \in ClaimedRanged :
            last.cls = cf[1] =>
                \A v \in BoundaryValues(FieldsOf(cf[1])[cf[2]]) :
                    last.input = With(MinimalInput(cf[1]), cf[2], v) =>
                        IF InClaimedRange(ClaimedRange(cf[1], cf[2]), Milli(v))
                        THEN last.outcome = "ok"
                        ELSE last.outcome = "ValidationError"

StatusNames ==
    {"Template", "Ready", "Running", "Completed", "Failed", "Aborted"}

(* C9: a Job constructed with job_status one of the six strings Template,  *)
(* Ready, Running, Completed, Failed, Aborted is accepted and holds the    *)
(* status of that name; any other string is rejected as no member of the   *)
(* enumeration. *)
C9_JobStatus ==
    Constructed /\ last.cls = "Job" =>
        \A s \in StatusTexts :
            last.input = With(MinimalInput("Job"), "job_status", PyStr(s)) =>
                IF s \in StatusNames
                THEN /\ last.outcome = "ok"
                     /\ last.fields.job_status = Member("JobStatus", s)
                ELSE /\ last.outcome = "ValidationError"
                     /\ Err(<<"job_status">>, "enum") \in last.errs

(* C10: CollectionSweep(scan_axis="Omega", axis_positions_start={"Omega":  *)
(* 0.0}, axis_positions_end={"Omega": 180.0}, image_width=0.1), nothing    *)
(* else supplied, is accepted and its scans are the empty list. *)
C10_SweepScenario ==
    Constructed /\ last.cls = "CollectionSweep" /\ last.input = SweepScenario =>
        /\ last.outcome = "ok"
        /\ last.fields.scans = PyList(<<>>)

(* C11: a construction from an input with two or more independently       *)
(* invalid fields (missing, out of range, wrong type, no enum member)      *)
(* fails with a validation error that lists every one of them, and no      *)
(* record is produced. *)
C11_AllViolationsListed ==
    Constructed =>
        \A S \in FaultSets(last.cls) :
            last.input = Faulty(last.cls, S) =>
                /\ last.outcome = "ValidationError"
                /\ {e.loc[1] : e \in last.errs} = {ft.f : ft \in S}
                /\ last.fields = EmptyMap

Exported == last.op = "export"

(* C12: a run of the export in a directory that refuses nothing ends       *)
(* normally having written exactly the six documents <TypeName>_schema.json *)
(* of the fixed list, each holding every declared field of its type with   *)
(* its description text. *)
C12_SchemaExport ==
    Exported /\ last.blocked = {} =>
        /\ last.outcome = "ok"
        /\ last.written = {FileName(ExportList[i]) : i \in DOMAIN ExportList}
        /\ Cardinality(last.written) = 6
        /\ \A i \in DOMAIN ExportList :
              /\ FileName(ExportList[i]) \in DOMAIN files
              /\ files[FileName(ExportList[i])].title = ExportList[i]
              /\ DOMAIN files[FileName(ExportList[i])].properties
                   = DOMAIN FieldsOf(ExportList[i])
              /\ \A f \in DOMAIN FieldsOf(ExportList[i]) :
                    files[FileName(ExportList[i])].properties[f].description

(* C13: a run of the export takes the types one after the other in the     *)
(* order of the list, starting with the first; it goes through the whole   *)
(* list unless a type fails, and then it ends at that type, attempts none  *)
(* after it and leaves no document of an earlier type behind. *)
C13_FailFastNoPartialResults ==
    Exported =>
        /\ Len(last.attempted) >= 1
        /\ last.attempted = SubSeq(ExportList, 1, Len(last.attempted))
        /\ last.outcome = "ok" => last.attempted = ExportList
        /\ last.outcome # "ok" => last.written = {} /\ files = last.before

(* The LogisticalSamples directly inside record i: those in its contents   *)
(* and those that name it as their container. *)
Inside(i) ==
    {j \in Held("LogisticalSample") :
        \/ Ref(j) \in Range(heap[i].fields.contents.items)
        \/ heap[j].fields.container = Ref(i)}
RECURSIVE Within(_, _)
Within(S, n) ==
    IF n = 0 THEN S ELSE Within(S \cup UNION {Inside(j) : j \in S}, n - 1)

(* C14: no LogisticalSample the application holds contains itself,         *)
(* directly or through other LogisticalSamples. *)
C14_ContainerAcyclic ==
    \A i \in Held("LogisticalSample") : i \notin Within(Inside(i), Len(heap))

(* C15: constructing a Dataset, with a source or without, changes no       *)
(* record already held (the source Job's results stay as they were), and   *)
(* putting a Dataset into a Job's results changes no other record (the     *)
(* Dataset's source stays as it was). *)
C15_LinksNotSynchronized ==
    [][/\ last'.op = "construct" /\ last'.cls = "Dataset" /\ last'.kept =>
            \A i \in DOMAIN heap : heap'[i] = heap[i]
       /\ last'.op = "assign" /\ last'.field = "results" =>
            /\ last'.outcome = "ok"
            /\ heap'[last'.at].fields.results = last'.value
            /\ \A i \in DOMAIN heap : i # last'.at => heap'[i] = heap[i]]_vars

(* A Dataset built with source = the Job held first, which is not among    *)
(* that Job's results. *)
C15_Witness ==
    /\ Constructed /\ last.cls = "Dataset" /\ last.kept
    /\ Len(heap) = 2 /\ heap[1].cls = "Job"
    /\ heap[2].fields.source = Ref(1)
    /\ Ref(2) \notin Range(heap[1].fields.results.items)

(* A value that meets the declaration's range and enumeration. *)
Meets(d, v) ==
    \/ v = PyNone /\ d.nullable
    \/ /\ d.type = "enum" => v.k = "enum" /\ v.enum = d.of
       /\ d.cons # {} => /\ v.k \in {"int", "float"}
                         /\ \A c \in d.cons : Satisfies(Milli(v), c)
Checked(cls) ==
    {f \in DOMAIN FieldsOf(cls) : FieldsOf(cls)[f].type = "enum" \/ FieldsOf(cls)[f].cons # {}}

(* C16 as stated: in every record the application holds, each              *)
(* range-constrained field is absent or within its range and each enum     *)
(* field is absent or a member of its enumeration. *)
C16_ConstraintsInvariant ==
    \A i \in DOMAIN heap : \A f \in Checked(heap[i].cls) :
        Meets(FieldsOf(heap[i].cls)[f], heap[i].fields[f])

(* C16 amended: the constraints are checked at construction only: every    *)
(* range-constrained and every enum field of a record that construction    *)
(* accepted meets its declaration, and an assignment to a non-frozen field  *)
(* is accepted and stores the value as it is, whether it meets the          *)
(* declaration or not. *)
C16_ConstraintsAtConstructionOnly ==
    /\ Constructed /\ last.outcome = "ok" =>
          \A f \in Checked(last.cls) : Meets(FieldsOf(last.cls)[f], last.fields[f])
    /\ Assigned /\ ~FieldsOf(last.cls)[last.field].frozen =>
          /\ last.outcome = "ok"
          /\ heap[last.at].fields[last.field] = last.value

(* A Job whose job_status was set to a string that names no status. *)
C16_Witness ==
    /\ Assigned /\ last.cls = "Job" /\ last.field = "job_status"
    /\ last.value = PyStr("Bogus")
    /\ heap[last.at].fields.job_status = PyStr("Bogus")

(* The fields whose declared type admits no None. *)
NeverNone(cls) ==
    {f \in DOMAIN FieldsOf(cls) :
        ~FieldsOf(cls)[f].nullable /\ FieldsOf(cls)[f].type # "any"}

(* C17: constructing a record, whichever optional inputs are supplied,     *)
(* ends in a record or in a validation error, and in a record that was     *)
(* accepted no field whose declared type admits no None is None. *)
C17_DeclaredTypesHold ==
    Constructed =>
        /\ last.outcome \in {"ok", "ValidationError"}
        /\ last.outcome = "ok" =>
              \A f \in NeverNone(last.cls) : last.fields[f] # PyNone

====
